---- MODULE Spec2Model ----
(***************************************************************************)
(* A model of the Win32 CRT replacement layer, src/native/win32-crt.c.     *)
(*                                                                         *)
(* The pure functions (string, memory, parsing, sorting) are operators     *)
(* that follow the loops of the C code statement by statement; each has a  *)
(* specification whose Init draws the call's inputs from bounded sets and  *)
(* whose actions apply the function.  bsearch is modelled one loop         *)
(* iteration per step, the heap and the environment as state machines      *)
(* over the Win32 primitives the code calls.                               *)
(***************************************************************************)
EXTENDS Integers, Sequences, FiniteSets, TLC

VARIABLES
  pc,             \* position of the caller: "call", "loop", "done", "run"
  op,             \* the function of this layer called last
  args,           \* its arguments
  ret,            \* its return value (and, for the parsers, *endptr)
  mem0,           \* what the call works on (memory, array, heap, environment) before it
  mem,            \* memory or array after the call
  low, high,      \* bsearch's locals
  heap,           \* the process heap: live block address -> its size
  held,           \* the block addresses the caller holds
  env,            \* the process environment: name of an existing variable -> value
  getenv_buffer,  \* per thread: the static __thread buffer of getenv
  wgetenv_buffer, \* per thread: the static __thread buffer of _wgetenv
  lastSet         \* per name: the value of the last successful _putenv

vars == <<pc, op, args, ret, mem0, mem, low, high, heap, held, env,
          getenv_buffer, wgetenv_buffer, lastSet>>

searchVars == <<low, high>>
heapVars == <<heap, held>>
envVars == <<env, getenv_buffer, wgetenv_buffer, lastSet>>

-----------------------------------------------------------------------------
(* Bounds of the model.                                                    *)

MaxLen == 2         \* longest dest/src string of the string calls
MaxN == 3           \* largest count passed to strncpy/strncat
MaxBuf == 4         \* size of the buffer memmove works in
MaxStr == 3         \* longest enumerated input of the integer parsers
MaxNum == 4         \* largest element count passed to qsort and bsearch
MaxKey == 3         \* number of distinct keys in the arrays
MaxAddr == 3        \* number of block addresses the heap can hand out
MaxSize == 2        \* largest size passed to the heap functions

-----------------------------------------------------------------------------
(* C values.                                                               *)

NULL == 0
\* (size_t)-1, the value a size_t holds after 0 is decremented; written -1
\* because 2^64 - 1 is outside the model checker's integers.
SIZE_MAX == -1

\* The parts of the state a specification does not use.
PureIdle == op = "none" /\ args = <<>> /\ ret = NULL /\ mem0 = <<>> /\ mem = <<>>
SearchIdle == low = 0 /\ high = 0
HeapIdle == heap = <<>> /\ held = {}
EnvIdle == env = <<>> /\ getenv_buffer = <<>> /\ wgetenv_buffer = <<>> /\ lastSet = <<>>

-----------------------------------------------------------------------------
(* String functions: strncpy, wcsncpy, strncat.                            *)
(* Memory is a sequence of elements (char or wchar_t), an address is an    *)
(* index into it.                                                          *)

\* 'a', 'b'
Chars == {97, 98}
Strs == UNION {[1..k -> Chars] : k \in 0..MaxLen}
\* What uninitialised and foreign memory holds: some non-zero element that
\* is no character of the strings.
Junk == CHOOSE b \in 1..255 : b \notin Chars

Fill(k) == [i \in 1..k |-> Junk]
DestCap == MaxLen + MaxN + 2
DestAt == 2
SrcAt == DestAt + DestCap + 1
\* One element before dest, dest holding the string d and then junk, one
\* element after dest, src holding the string s.
Layout(d, s) ==
  Fill(1) \o d \o <<0>> \o Fill(DestCap - Len(d) - 1) \o Fill(1)
          \o s \o <<0>> \o Fill(MaxLen - Len(s))

RECURSIVE strlen_loop(_, _)
\* while (*s) s++;
strlen_loop(m, s) == IF m[s] = 0 THEN s ELSE strlen_loop(m, s + 1)
strlen(m, str) == strlen_loop(m, str) - str

RECURSIVE strncpy_copy(_, _, _, _)
\* while (count && (*d++ = *src++)) count--;
strncpy_copy(m, d, s, count) ==
  IF count = 0 THEN [mem |-> m, d |-> d, count |-> count]
  ELSE LET c == m[s]
           m2 == [m EXCEPT ![d] = c]
       IN IF c = 0 THEN [mem |-> m2, d |-> d + 1, count |-> count]
          ELSE strncpy_copy(m2, d + 1, s + 1, count - 1)

RECURSIVE strncpy_pad(_, _, _)
\* while (count--) *d++ = '\0';
strncpy_pad(m, d, count) ==
  IF count = 0 THEN m
  ELSE strncpy_pad([m EXCEPT ![d] = 0], d + 1, count - 1)

strncpy(m, dest, src, count) ==
  LET r == strncpy_copy(m, dest, src, count)
  IN strncpy_pad(r.mem, r.d, r.count)

\* wcsncpy is strncpy over wchar_t elements, statement for statement.
wcsncpy(m, dest, src, count) ==
  LET r == strncpy_copy(m, dest, src, count)
  IN strncpy_pad(r.mem, r.d, r.count)

RECURSIVE strncat_loop(_, _, _, _)
\* while (count-- && (*d++ = *src++));
strncat_loop(m, d, s, count) ==
  IF count = 0 THEN [mem |-> m, d |-> d, count |-> SIZE_MAX]
  ELSE LET c == m[s]
           m2 == [m EXCEPT ![d] = c]
       IN IF c = 0 THEN [mem |-> m2, d |-> d + 1, count |-> count - 1]
          ELSE strncat_loop(m2, d + 1, s + 1, count - 1)

strncat(m, dest, src, count) ==
  LET d == strlen_loop(m, dest)
      r == strncat_loop(m, d, src, count)
  IN IF r.count = SIZE_MAX THEN [r.mem EXCEPT ![r.d - 1] = 0] ELSE r.mem

InitString ==
  /\ pc = "call"
  /\ op = "none"
  /\ args \in [dest : Strs, src : Strs, count : 0..MaxN]
  /\ ret = NULL
  /\ mem0 = <<>>
  /\ mem = <<>>
  /\ SearchIdle /\ HeapIdle /\ EnvIdle

StringCall(name, m) ==
  /\ pc = "call"
  /\ pc' = "done"
  /\ op' = name
  /\ mem0' = Layout(args.dest, args.src)
  /\ mem' = m
  /\ ret' = DestAt
  /\ UNCHANGED <<args, searchVars, heapVars, envVars>>

Strncpy ==
  StringCall("strncpy", strncpy(Layout(args.dest, args.src), DestAt, SrcAt, args.count))

Wcsncpy ==
  StringCall("wcsncpy", wcsncpy(Layout(args.dest, args.src), DestAt, SrcAt, args.count))

Strncat ==
  StringCall("strncat", strncat(Layout(args.dest, args.src), DestAt, SrcAt, args.count))

NextString == Strncpy \/ Wcsncpy \/ Strncat

SpecString == InitString /\ [][NextString]_vars

\* The string of memory m that starts at address a.
StrAt(m, a) == SubSeq(m, a, strlen_loop(m, a) - 1)
Min(a, b) == IF a < b THEN a ELSE b

(* C1: after strncat(dest, src, n), dest holds its original content, then   *)
(* the first min(n, strlen(src)) characters of src, then one terminator;    *)
(* nothing else in memory, in particular nothing before dest[0], changes.   *)
C1_StrncatAppends ==
  (pc = "done" /\ op = "strncat") =>
    LET k == Min(args.count, Len(args.src))
        newLen == Len(args.dest) + k
    IN /\ \A i \in 1..Len(mem) :
            (i < DestAt + Len(args.dest) \/ i > DestAt + newLen) => mem[i] = mem0[i]
       /\ \A i \in 1..k : mem[DestAt + Len(args.dest) + i - 1] = args.src[i]
       /\ mem[DestAt + newLen] = 0
       /\ StrAt(mem, DestAt) = args.dest \o SubSeq(args.src, 1, k)

(* C3: strncpy/wcsncpy(dest, src, n) writes exactly dest[0..n-1]: the first *)
(* min(n, length(src)) elements of src, then terminators up to index n-1;   *)
(* every other element of memory, in particular dest[n], is unchanged.      *)
C3_BoundedCopyWritesN ==
  (pc = "done" /\ op \in {"strncpy", "wcsncpy"}) =>
    LET n == args.count
        k == Min(n, Len(args.src))
    IN /\ \A i \in 0..(k - 1) : mem[DestAt + i] = args.src[i + 1]
       /\ \A i \in k..(n - 1) : mem[DestAt + i] = 0
       /\ \A a \in 1..Len(mem) : (a < DestAt \/ a >= DestAt + n) => mem[a] = mem0[a]

-----------------------------------------------------------------------------
(* Raw memory: memcpy, memmove.                                            *)

Bytes == {0, 1, 255}

RECURSIVE memcpy_loop(_, _, _, _)
\* while (count--) *d++ = *s++;
memcpy_loop(m, d, s, count) ==
  IF count = 0 THEN m
  ELSE memcpy_loop([m EXCEPT ![d] = m[s]], d + 1, s + 1, count - 1)

memcpy(m, dest, src, count) == memcpy_loop(m, dest, src, count)

RECURSIVE memmove_backward(_, _, _, _)
\* while (count--) *--d = *--s;
memmove_backward(m, d, s, count) ==
  IF count = 0 THEN m
  ELSE memmove_backward([m EXCEPT ![d - 1] = m[s - 1]], d - 1, s - 1, count - 1)

\* A memmove that always copies forward, as memcpy does.
memmove_forward_only(m, dest, src, count) == memcpy_loop(m, dest, src, count)

memmove(m, dest, src, count) ==
  IF dest < src THEN memcpy_loop(m, dest, src, count)
  ELSE IF dest > src THEN memmove_backward(m, dest + count, src + count, count)
  ELSE m

InitMemory ==
  /\ pc = "call"
  /\ op = "none"
  /\ \E d \in 1..MaxBuf, s \in 1..MaxBuf :
       \E n \in 0..(MaxBuf + 1 - (IF d > s THEN d ELSE s)) :
         args \in [buf : [1..MaxBuf -> Bytes], dest : {d}, src : {s}, count : {n}]
  /\ ret = NULL
  /\ mem0 = <<>>
  /\ mem = <<>>
  /\ SearchIdle /\ HeapIdle /\ EnvIdle

Memmove ==
  /\ pc = "call"
  /\ pc' = "done"
  /\ op' = "memmove"
  /\ mem0' = args.buf
  /\ mem' = memmove(args.buf, args.dest, args.src, args.count)
  /\ ret' = args.dest
  /\ UNCHANGED <<args, searchVars, heapVars, envVars>>

NextMemory == Memmove

SpecMemory == InitMemory /\ [][NextMemory]_vars

(* C4: after memmove(dest, src, n) on two ranges of one buffer, however     *)
(* they overlap, the n bytes at dest are the n bytes that were at src       *)
(* before the call, and the bytes outside dest[0..n-1] are unchanged.       *)
C4_MoveOverlap ==
  (pc = "done" /\ op = "memmove") =>
    /\ \A i \in 0..(args.count - 1) : mem[args.dest + i] = mem0[args.src + i]
    /\ \A a \in 1..MaxBuf :
         (a < args.dest \/ a >= args.dest + args.count) => mem[a] = mem0[a]
    /\ ret = args.dest

\* dest lies inside the source range, above its start, and the move changed
\* the buffer: the case a forward copy gets wrong.
C4_Witness ==
  /\ pc = "done" /\ op = "memmove"
  /\ args.src < args.dest /\ args.dest < args.src + args.count
  /\ args.count >= 2
  /\ mem0[args.src] # mem0[args.dest]
  /\ mem # mem0

-----------------------------------------------------------------------------
(* String to number conversion: strtol, strtoul, strtoll, strtoull,        *)
(* wcstol, wcstoul.                                                        *)
(*                                                                         *)
(* A string is the sequence of its character codes; the terminator is the  *)
(* element after the last one.  p counts from 1, so *endptr - str is p - 1.*)
(* A long (32 bits on Windows) or long long (64 bits) is a sequence of     *)
(* 16-bit limbs, least significant first, because the model checker's      *)
(* integers are 32 bits wide themselves.  The C code overflows a signed    *)
(* long in result * base + digit and in -result; the builds this file is   *)
(* written for (MSVC, MinGW on x86) compute both in two's complement, and  *)
(* so does the model.                                                      *)

Radix == 2 ^ 16
LongLimbs == 2
LongLongLimbs == 4

Zero(w) == [i \in 1..w |-> 0]

RECURSIVE MulAddLimbs(_, _, _, _)
MulAddLimbs(x, i, b, carry) ==
  IF i > Len(x) THEN <<>>
  ELSE LET t == x[i] * b + carry
       IN <<t % Radix>> \o MulAddLimbs(x, i + 1, b, t \div Radix)

\* result * base + digit in the width of result
MulAdd(result, base, digit) == MulAddLimbs(result, 1, base, digit)

RECURSIVE NegLimbs(_, _, _)
NegLimbs(x, i, carry) ==
  IF i > Len(x) THEN <<>>
  ELSE LET t == (Radix - 1 - x[i]) + carry
       IN <<t % Radix>> \o NegLimbs(x, i + 1, t \div Radix)

\* -result in the width of result
Neg(result) == NegLimbs(result, 1, 1)

\* *p, for p up to one past the terminator's position
CharAt(str, p) == IF p <= Len(str) THEN str[p] ELSE 0

\* ' ', '\t', '\n', '\r', '\f', '\v'
isspace(c) == c = 32 \/ c = 9 \/ c = 10 \/ c = 13 \/ c = 12 \/ c = 11
\* iswspace comes from the compiler's headers; on the ASCII range it is isspace.
iswspace(c) == isspace(c)

RECURSIVE skip_space(_, _)
\* while (isspace((unsigned char)*p)) p++;
skip_space(str, p) ==
  IF isspace(CharAt(str, p)) THEN skip_space(str, p + 1) ELSE p

RECURSIVE skip_wspace(_, _)
\* while (iswspace(*p)) p++;
skip_wspace(str, p) ==
  IF iswspace(CharAt(str, p)) THEN skip_wspace(str, p + 1) ELSE p

\* if (*p == '-') { negative = 1; p++; } else if (*p == '+') p++;
handle_sign(str, p) ==
  IF CharAt(str, p) = 45 THEN [negative |-> TRUE, p |-> p + 1]
  ELSE IF CharAt(str, p) = 43 THEN [negative |-> FALSE, p |-> p + 1]
  ELSE [negative |-> FALSE, p |-> p]

\* The base detection with "any leading 0 is a decimal digit": no octal.
detect_base_no_octal(str, p, base) ==
  IF base = 0
  THEN IF CharAt(str, p) = 48 /\ (CharAt(str, p + 1) = 120 \/ CharAt(str, p + 1) = 88)
       THEN [base |-> 16, p |-> p + 2]
       ELSE [base |-> 10, p |-> p]
  ELSE IF base = 16 /\ CharAt(str, p) = 48
          /\ (CharAt(str, p + 1) = 120 \/ CharAt(str, p + 1) = 88)
       THEN [base |-> base, p |-> p + 2]
       ELSE [base |-> base, p |-> p]

detect_base(str, p, base) ==
  IF base = 0
  THEN IF CharAt(str, p) = 48
       THEN IF CharAt(str, p + 1) = 120 \/ CharAt(str, p + 1) = 88
            THEN [base |-> 16, p |-> p + 2]
            ELSE [base |-> 8, p |-> p + 1]
       ELSE [base |-> 10, p |-> p]
  ELSE IF base = 16 /\ CharAt(str, p) = 48
          /\ (CharAt(str, p + 1) = 120 \/ CharAt(str, p + 1) = 88)
       THEN [base |-> base, p |-> p + 2]
       ELSE [base |-> base, p |-> p]

\* The digit a character stands for, -1 where the loop breaks on it.
digit_of(c) ==
  IF c >= 48 /\ c <= 57 THEN c - 48
  ELSE IF c >= 97 /\ c <= 122 THEN c - 97 + 10
  ELSE IF c >= 65 /\ c <= 90 THEN c - 65 + 10
  ELSE -1

RECURSIVE convert(_, _, _, _)
\* while (*p) { ...; if (digit >= base) break; result = result * base + digit; p++; }
convert(str, p, base, result) ==
  LET c == CharAt(str, p)
      digit == digit_of(c)
  IN IF c = 0 \/ digit = -1 \/ digit >= base THEN [result |-> result, p |-> p]
     ELSE convert(str, p + 1, base, MulAdd(result, base, digit))

\* The body the six functions share, for a result of w limbs and the
\* whitespace skip at position p0.
parse_body(str, p0, base, w) ==
  LET s == handle_sign(str, p0)
      b == detect_base(str, s.p, base)
      r == convert(str, b.p, b.base, Zero(w))
  IN [value |-> IF s.negative THEN Neg(r.result) ELSE r.result,
      endptr |-> r.p - 1]

strtol(str, base) == parse_body(str, skip_space(str, 1), base, LongLimbs)
\* return (unsigned long)strtol(str, endptr, base);
strtoul(str, base) == strtol(str, base)
strtoll(str, base) == parse_body(str, skip_space(str, 1), base, LongLongLimbs)
\* return (unsigned long long)strtoll(str, endptr, base);
strtoull(str, base) == strtoll(str, base)
wcstol(str, base) == parse_body(str, skip_wspace(str, 1), base, LongLimbs)
\* return (unsigned long)wcstol(str, endptr, base);
wcstoul(str, base) == wcstol(str, base)

\* ' ', '+', '-', '0', '7', '9', 'F', 'X', 'a', 'g', 'x'
ParseChars == {32, 43, 45, 48, 55, 57, 70, 88, 97, 103, 120}
Rep(c, k) == [i \in 1..k |-> c]
Examples ==
  { <<48, 120, 49, 65>>,                \* "0x1A"
    <<32, 32, 45, 52, 50>>,             \* "  -42"
    <<32, 43, 48, 88, 102>>,            \* " +0Xf"
    <<45, 48, 120, 55, 102>>,           \* "-0x7f"
    <<9, 48, 49, 55, 56>>,              \* "\t0178"
    <<55>> \o Rep(102, 7),              \* "7fffffff"
    Rep(102, 8) \o <<49>>,              \* "ffffffff1"
    <<45, 56>> \o Rep(48, 7),           \* "-80000000"
    <<52, 50, 57, 52, 57, 54, 55, 50, 57, 55>>,  \* "4294967297"
    <<45>> \o Rep(102, 16) \o <<57>> }  \* "-ffffffffffffffff9"
ParseStrs == UNION {[1..k -> ParseChars] : k \in 0..MaxStr} \cup Examples
Bases == {0, 8, 10, 16}

InitParse ==
  /\ pc = "call"
  /\ op = "none"
  /\ args \in [str : ParseStrs, base : Bases]
  /\ ret = NULL
  /\ mem0 = <<>>
  /\ mem = <<>>
  /\ SearchIdle /\ HeapIdle /\ EnvIdle

ParseCall(name, r) ==
  /\ pc = "call"
  /\ pc' = "done"
  /\ op' = name
  /\ ret' = r
  /\ UNCHANGED <<args, mem0, mem, searchVars, heapVars, envVars>>

Strtol == ParseCall("strtol", strtol(args.str, args.base))
Strtoul == ParseCall("strtoul", strtoul(args.str, args.base))
Strtoll == ParseCall("strtoll", strtoll(args.str, args.base))
Strtoull == ParseCall("strtoull", strtoull(args.str, args.base))
Wcstol == ParseCall("wcstol", wcstol(args.str, args.base))
Wcstoul == ParseCall("wcstoul", wcstoul(args.str, args.base))

NextParse == Strtol \/ Strtoul \/ Strtoll \/ Strtoull \/ Wcstol \/ Wcstoul

SpecParse == InitParse /\ [][NextParse]_vars

(* What the input is, read as "whitespace, sign, prefix, digits", stated    *)
(* on the string as a whole.                                                *)

IsWs(c) == c \in {32, 9, 10, 11, 12, 13}
\* The characters of the digits 0..35, lower and upper case.
LowerDigits == <<48, 49, 50, 51, 52, 53, 54, 55, 56, 57>> \o [i \in 1..26 |-> 96 + i]
UpperDigits == <<48, 49, 50, 51, 52, 53, 54, 55, 56, 57>> \o [i \in 1..26 |-> 64 + i]
IsDigitIn(c, b) == \E v \in 0..(b - 1) : c = LowerDigits[v + 1] \/ c = UpperDigits[v + 1]
DigitValue(c) == CHOOSE v \in 0..35 : c = LowerDigits[v + 1] \/ c = UpperDigits[v + 1]

\* Number of leading whitespace characters.
WsLen(str) ==
  CHOOSE k \in 0..Len(str) :
    /\ \A i \in 1..k : IsWs(str[i])
    /\ k < Len(str) => ~IsWs(str[k + 1])
HasSign(str) == WsLen(str) < Len(str) /\ str[WsLen(str) + 1] \in {43, 45}
IsNegative(str) == HasSign(str) /\ str[WsLen(str) + 1] = 45
\* Index of the first character after whitespace and sign.
Body(str) == WsLen(str) + (IF HasSign(str) THEN 1 ELSE 0) + 1
HasHexPrefix(str, base) ==
  /\ base \in {0, 16}
  /\ Body(str) + 1 <= Len(str)
  /\ str[Body(str)] = 48
  /\ str[Body(str) + 1] \in {120, 88}
SelectedBase(str, base) ==
  IF base # 0 THEN base
  ELSE IF HasHexPrefix(str, base) THEN 16
  ELSE IF Body(str) <= Len(str) /\ str[Body(str)] = 48 THEN 8
  ELSE 10
\* Index of the first character of the digits.
DigitsAt(str, base) == Body(str) + (IF HasHexPrefix(str, base) THEN 2 ELSE 0)
\* Length of the maximal run of valid digits.
RunLen(str, base) ==
  LET b == SelectedBase(str, base)
      d == DigitsAt(str, base)
  IN CHOOSE k \in 0..(Len(str) + 1 - d) :
       /\ \A i \in 0..(k - 1) : IsDigitIn(str[d + i], b)
       /\ d + k <= Len(str) => ~IsDigitIn(str[d + k], b)
Run(str, base) ==
  SubSeq(str, DigitsAt(str, base), DigitsAt(str, base) + RunLen(str, base) - 1)

\* The value of a run of digits as a number of w limbs wide enough to hold
\* it exactly: the sum of digit * base^position.
RECURSIVE RunValue(_, _, _)
RunValue(run, b, w) ==
  IF run = <<>> THEN Zero(w)
  ELSE MulAdd(RunValue(SubSeq(run, 1, Len(run) - 1), b, w), b,
              DigitValue(run[Len(run)]))
ExactLimbs == LongLongLimbs + 2
\* sign * value, reduced modulo 2^(16 w).
Expected(str, base, w) ==
  LET v == SubSeq(RunValue(Run(str, base), SelectedBase(str, base), ExactLimbs), 1, w)
  IN IF IsNegative(str) THEN Neg(v) ELSE v

WidthOf(name) == IF name \in {"strtoll", "strtoull"} THEN LongLongLimbs ELSE LongLimbs
Parsers == {"strtol", "strtoul", "strtoll", "strtoull", "wcstol", "wcstoul"}

(* C2: when the parse consumes no digits (empty input, only whitespace,     *)
(* whitespace and/or a sign followed by a non-digit, a 0x prefix followed   *)
(* by a non-hex character) the value is zero and the end-pointer is the     *)
(* start of the input.                                                      *)
C2_NoDigitsEndAtStart ==
  (pc = "done" /\ op \in Parsers /\ RunLen(args.str, args.base) = 0) =>
    /\ ret.value = Zero(WidthOf(op))
    /\ ret.endptr = 0

(* C5: when the input is whitespace, sign, prefix and at least one valid    *)
(* digit, the value is sign * (value of the maximal run of valid digits in  *)
(* the selected base) modulo the native width, and the end-pointer is just  *)
(* after that run; "0x1A" in base 0 gives 26 and end-pointer 4, "  -42" in  *)
(* base 10 gives -42.                                                       *)
C5_ParseValue ==
  (pc = "done" /\ op \in Parsers) =>
    /\ RunLen(args.str, args.base) >= 1 =>
         /\ ret.value = Expected(args.str, args.base, WidthOf(op))
         /\ ret.endptr = DigitsAt(args.str, args.base) + RunLen(args.str, args.base) - 1
    /\ (args.str = <<48, 120, 49, 65>> /\ args.base = 0) =>
         /\ ret.value = <<26>> \o Zero(WidthOf(op) - 1)
         /\ ret.endptr = 4
    /\ (args.str = <<32, 32, 45, 52, 50>> /\ args.base = 10) =>
         ret.value = Neg(<<42>> \o Zero(WidthOf(op) - 1))

\* "-0x7f" in base 0: a sign, a prefix and two hex digits.
C5_Witness ==
  /\ pc = "done" /\ op = "strtol"
  /\ args.str = <<45, 48, 120, 55, 102>> /\ args.base = 0
  /\ ret.value = <<65409, 65535>>
  /\ ret.endptr = 5

-----------------------------------------------------------------------------
(* qsort.  An array is the sequence of its elements; element i of the C    *)
(* array (arr + i * size) is arr[i + 1].  An element is <<key, tag>>: the  *)
(* comparators look at the key only, the tag tells equal keys apart.       *)

\* The comparators passed in: ascending by key, descending by key, and the
\* one under which all elements are equal.
Comparators == {"ascending", "descending", "all_equal"}
compar(f, a, b) ==
  IF f = "ascending" THEN a[1] - b[1]
  ELSE IF f = "descending" THEN b[1] - a[1]
  ELSE 0

RECURSIVE qsort_shift_ge(_, _, _, _)
\* The shifting loop with >= 0 for > 0: it moves temp past equal elements.
qsort_shift_ge(arr, j, temp, f) ==
  IF j > 0 /\ compar(f, arr[j], temp) >= 0
  THEN qsort_shift_ge([arr EXCEPT ![j + 1] = arr[j]], j - 1, temp, f)
  ELSE [arr |-> arr, j |-> j]

RECURSIVE qsort_shift(_, _, _, _)
\* while (j > 0 && compar(arr + (j - 1) * size, temp) > 0) {
\*     memcpy(arr + j * size, arr + (j - 1) * size, size); j--; }
qsort_shift(arr, j, temp, f) ==
  IF j > 0 /\ compar(f, arr[j], temp) > 0
  THEN qsort_shift([arr EXCEPT ![j + 1] = arr[j]], j - 1, temp, f)
  ELSE [arr |-> arr, j |-> j]

RECURSIVE qsort_for(_, _, _, _)
\* for (size_t i = 1; i < num; i++) { memcpy(temp, arr + i * size, size); ...;
\*     memcpy(arr + j * size, temp, size); }
qsort_for(arr, i, num, f) ==
  IF i < num
  THEN LET temp == arr[i + 1]
           r == qsort_shift(arr, i, temp, f)
       IN qsort_for([r.arr EXCEPT ![r.j + 1] = temp], i + 1, num, f)
  ELSE arr

\* temp is what malloc(size) returned: NULL when the heap had no room.
qsort(arr, num, f, temp) ==
  IF temp = NULL THEN arr ELSE qsort_for(arr, 1, num, f)

Keys == 1..MaxKey
\* The arrays of n elements: any keys, tagged with their positions.
Arrays(n) == {[i \in 1..n |-> <<k[i], i>>] : k \in [1..n -> Keys]}

InitSort ==
  /\ pc = "call"
  /\ op = "none"
  /\ \E n \in 0..MaxNum :
       args \in [base : Arrays(n), num : {n}, compar : Comparators, temp : {NULL, 1}]
  /\ ret = NULL
  /\ mem0 = <<>>
  /\ mem = <<>>
  /\ SearchIdle /\ HeapIdle /\ EnvIdle

Qsort ==
  /\ pc = "call"
  /\ pc' = "done"
  /\ op' = "qsort"
  /\ mem0' = args.base
  /\ mem' = qsort(args.base, args.num, args.compar, args.temp)
  /\ UNCHANGED <<args, ret, searchVars, heapVars, envVars>>

NextSort == Qsort

SpecSort == InitSort /\ [][NextSort]_vars

(* C6: when the scratch allocation succeeds, the array after qsort is a     *)
(* permutation of the input, is non-decreasing under the comparator, and    *)
(* elements that compare equal keep their input order.                      *)
C6_SortStable ==
  (pc = "done" /\ op = "qsort" /\ args.temp # NULL) =>
    /\ Len(mem) = Len(mem0)
    /\ \A e \in {mem0[i] : i \in 1..Len(mem0)} :
         Cardinality({i \in 1..Len(mem) : mem[i] = e}) = 1
    /\ \A i \in 1..Len(mem) : \A j \in (i + 1)..Len(mem) :
         /\ compar(args.compar, mem[i], mem[j]) <= 0
         /\ compar(args.compar, mem[i], mem[j]) = 0 => mem[i][2] < mem[j][2]

\* An input with two equal keys and a smaller key after them, sorted.
C6_Witness ==
  /\ pc = "done" /\ op = "qsort" /\ args.temp # NULL
  /\ args.compar = "ascending"
  /\ Len(mem0) >= 3
  /\ mem0[1][1] = mem0[2][1] /\ mem0[3][1] < mem0[1][1]
  /\ mem # mem0

-----------------------------------------------------------------------------
(* bsearch, one loop iteration per step.  The array holds int keys; the    *)
(* comparator is key - element.                                            *)

\* Address of the array searched.
ArrAt == 16
ElemSizes == {1, 4}
compar_int(key, elem) == key - elem

\* The iteration with low = mid for low = mid + 1.
bsearch_iteration_low_mid(a, lo, hi) ==
  LET mid == lo + (hi - lo) \div 2
      cmp == compar_int(a.key, a.base[mid + 1])
  IN IF cmp < 0 THEN [low |-> lo, high |-> mid, pc |-> "loop", ret |-> NULL]
     ELSE IF cmp > 0 THEN [low |-> mid, high |-> hi, pc |-> "loop", ret |-> NULL]
     ELSE [low |-> lo, high |-> hi, pc |-> "done", ret |-> ArrAt + mid * a.size]

\* size_t mid = low + (high - low) / 2; int cmp = compar(key, arr + mid * size);
\* if (cmp < 0) high = mid; else if (cmp > 0) low = mid + 1; else return ...;
bsearch_iteration(a, lo, hi) ==
  LET mid == lo + (hi - lo) \div 2
      cmp == compar_int(a.key, a.base[mid + 1])
  IN IF cmp < 0 THEN [low |-> lo, high |-> mid, pc |-> "loop", ret |-> NULL]
     ELSE IF cmp > 0 THEN [low |-> mid + 1, high |-> hi, pc |-> "loop", ret |-> NULL]
     ELSE [low |-> lo, high |-> hi, pc |-> "done", ret |-> ArrAt + mid * a.size]

\* The elements are the even numbers, the keys searched for lie below,
\* between, on and above them.
Elems == {2 * k : k \in 1..MaxKey}
SearchKeys == 1..(2 * MaxKey + 1)
SortedArrays(n) == {a \in [1..n -> Elems] : \A i \in 1..n : \A j \in i..n : a[i] <= a[j]}

InitSearch ==
  /\ pc = "call"
  /\ op = "none"
  /\ \E n \in 0..MaxNum :
       args \in [key : SearchKeys, base : SortedArrays(n), num : {n}, size : ElemSizes]
  /\ ret = NULL
  /\ mem0 = <<>>
  /\ mem = <<>>
  /\ low = 0
  /\ high = 0
  /\ HeapIdle /\ EnvIdle

\* size_t low = 0, high = num;
BsearchEnter ==
  /\ pc = "call"
  /\ pc' = "loop"
  /\ op' = "bsearch"
  /\ low' = 0
  /\ high' = args.num
  /\ UNCHANGED <<args, ret, mem0, mem, heapVars, envVars>>

\* while (low < high) { ... }
BsearchIterate ==
  /\ pc = "loop"
  /\ low < high
  /\ LET r == bsearch_iteration(args, low, high)
     IN /\ low' = r.low
        /\ high' = r.high
        /\ pc' = r.pc
        /\ ret' = r.ret
  /\ UNCHANGED <<op, args, mem0, mem, heapVars, envVars>>

\* return NULL;
BsearchNotFound ==
  /\ pc = "loop"
  /\ ~(low < high)
  /\ pc' = "done"
  /\ ret' = NULL
  /\ UNCHANGED <<op, args, low, high, mem0, mem, heapVars, envVars>>

NextSearch == BsearchEnter \/ BsearchIterate \/ BsearchNotFound

\* The function runs to its return: a started call keeps taking steps.
SpecSearch == InitSearch /\ [][NextSearch]_vars /\ WF_vars(NextSearch)

\* The element of the array at address p.
ElemAt(a, p) == a.base[(p - ArrAt) \div a.size + 1]
BsearchResult ==
  (pc = "done" /\ op = "bsearch") =>
    IF \E i \in 1..args.num : args.base[i] = args.key
    THEN /\ ret # NULL
         /\ (ret - ArrAt) % args.size = 0
         /\ (ret - ArrAt) \div args.size \in 0..(args.num - 1)
         /\ ElemAt(args, ret) = args.key
    ELSE ret = NULL

(* C7: on an array sorted under the comparator, bsearch terminates; it      *)
(* returns the address of an element equal to the key when there is one,    *)
(* and NULL when there is none, whether the key lies below, above or in a   *)
(* gap of the array.                                                        *)
C7_BinarySearch == []BsearchResult /\ <>(pc = "done")

\* The key is found in an array that holds it twice.
C7_Witness ==
  /\ pc = "done" /\ op = "bsearch"
  /\ ret # NULL
  /\ Cardinality({i \in 1..args.num : args.base[i] = args.key}) = 2
  /\ args.num = MaxNum

-----------------------------------------------------------------------------
(* The heap: malloc, calloc, realloc, free over HeapAlloc, HeapReAlloc and *)
(* HeapFree.  A heap h is a function from the addresses of its live blocks *)
(* to their sizes.  What a Win32 primitive answers is not decided by this  *)
(* code: each call takes the primitive's outcome `out` as an input, NULL   *)
(* for failure or the address it returns.                                  *)

Addrs == 1..MaxAddr
NoBlocks == [a \in {} |-> 0]
Live(h) == DOMAIN h
Without(h, p) == [a \in DOMAIN h \ {p} |-> h[a]]
With(h, p, size) == [a \in DOMAIN h \cup {p} |-> IF a = p THEN size ELSE h[a]]

\* What HeapAlloc can answer on heap h: failure, or a block that is not live.
AllocOutcomes(h) == {NULL} \cup (Addrs \ Live(h))
\* What HeapReAlloc can answer for block p: failure, p itself, or a new block.
ReAllocOutcomes(h, p) == {NULL, p} \cup (Addrs \ Live(h))

HeapAlloc(h, size, out) ==
  IF out = NULL THEN [heap |-> h, ret |-> NULL]
  ELSE [heap |-> With(h, out, size), ret |-> out]

\* On failure the original block is left as it was.
HeapReAlloc(h, p, size, out) ==
  IF out = NULL THEN [heap |-> h, ret |-> NULL]
  ELSE [heap |-> With(Without(h, p), out, size), ret |-> out]

HeapFree(h, p) == Without(h, p)

\* A malloc that answers a request for 0 bytes with NULL.
malloc_zero_is_null(h, size, out) ==
  IF size = 0 THEN [heap |-> h, ret |-> NULL] ELSE HeapAlloc(h, size, out)

malloc(h, size, out) == HeapAlloc(h, IF size = 0 THEN 1 ELSE size, out)

calloc(h, count, size, out) ==
  LET total == count * size
  IN HeapAlloc(h, IF total = 0 THEN 1 ELSE total, out)

\* A realloc that gets the new block from HeapAlloc and forgets the old one.
realloc_keeps_old(h, ptr, size, out) ==
  IF ptr = NULL THEN malloc(h, size, out)
  ELSE IF size = 0 THEN [heap |-> HeapFree(h, ptr), ret |-> NULL]
  ELSE IF out = ptr THEN HeapReAlloc(h, ptr, size, out)
  ELSE HeapAlloc(h, size, out)

realloc(h, ptr, size, out) ==
  IF ptr = NULL THEN malloc(h, size, out)
  ELSE IF size = 0 THEN [heap |-> HeapFree(h, ptr), ret |-> NULL]
  ELSE HeapReAlloc(h, ptr, size, out)

free(h, ptr) == IF ptr # NULL THEN HeapFree(h, ptr) ELSE h

Sizes == 0..MaxSize

InitHeap ==
  /\ pc = "run"
  /\ PureIdle
  /\ SearchIdle
  /\ heap = NoBlocks
  /\ held = {}
  /\ EnvIdle

\* A call of the heap functions by a caller that holds the blocks `held`;
\* mem0 keeps the heap the call started from.
HeapCall(name, a, r, h) ==
  /\ pc = "run"
  /\ op' = name
  /\ args' = a
  /\ ret' = r.ret
  /\ mem0' = heap
  /\ heap' = r.heap
  /\ held' = h
  /\ UNCHANGED <<pc, mem, searchVars, envVars>>

Malloc ==
  \E size \in Sizes, out \in AllocOutcomes(heap) :
    LET r == malloc(heap, size, out)
    IN HeapCall("malloc", [size |-> size, out |-> out], r, held \cup ({r.ret} \ {NULL}))

Calloc ==
  \E count \in Sizes, size \in Sizes, out \in AllocOutcomes(heap) :
    LET r == calloc(heap, count, size, out)
    IN HeapCall("calloc", [count |-> count, size |-> size, out |-> out], r,
                held \cup ({r.ret} \ {NULL}))

\* The caller gives up ptr when realloc returns a block or was asked for
\* size 0, and keeps it when realloc(ptr, size > 0) returns NULL.
Realloc ==
  \E ptr \in held \cup {NULL}, size \in Sizes :
    \E out \in (IF ptr = NULL THEN AllocOutcomes(heap) ELSE ReAllocOutcomes(heap, ptr)) :
      LET r == realloc(heap, ptr, size, out)
      IN HeapCall("realloc", [ptr |-> ptr, size |-> size, out |-> out], r,
                  IF r.ret # NULL THEN (held \ {ptr}) \cup {r.ret}
                  ELSE IF size = 0 THEN held \ {ptr}
                  ELSE held)

Free ==
  \E ptr \in held \cup {NULL} :
    HeapCall("free", [ptr |-> ptr], [heap |-> free(heap, ptr), ret |-> NULL],
             held \ {ptr})

NextHeap == Malloc \/ Calloc \/ Realloc \/ Free

SpecHeap == InitHeap /\ [][NextHeap]_vars

IsRealloc == pc = "run" /\ op = "realloc" /\ args.ptr # NULL /\ args.size > 0

(* C8 as claimed: after realloc(block, new_size) with a non-null block and  *)
(* new_size > 0 the old address is not a live block unless it is the        *)
(* address returned, whether realloc returned a block or NULL; so every     *)
(* live block is held by a caller that dropped the old address.             *)
C8_OldAddressDead ==
  IsRealloc =>
    /\ args.ptr \notin Live(heap) \/ args.ptr = ret
    /\ Live(heap) \subseteq (held \ {args.ptr}) \cup ({ret} \ {NULL})

(* C8 as amended: when realloc(block, new_size > 0) returns a block, the    *)
(* old address is not live unless it is the address returned; when it       *)
(* returns NULL the old block is still live, with its size; so a caller     *)
(* that drops the old address exactly when realloc returns a block (or was  *)
(* asked for size 0) holds exactly the live blocks, whatever the heap       *)
(* primitives answer.                                                       *)
C8_ReallocOwnership ==
  /\ IsRealloc =>
       /\ ret # NULL =>
            /\ args.ptr \notin Live(heap) \/ args.ptr = ret
            /\ ret \in Live(heap) /\ heap[ret] = args.size
            /\ Live(heap) = (Live(mem0) \ {args.ptr}) \cup {ret}
       /\ ret = NULL => heap = mem0 /\ args.ptr \in Live(heap)
  /\ pc = "run" => Live(heap) = held

\* realloc moved a block to a new address while another block was live.
C8_Witness ==
  /\ IsRealloc
  /\ ret # NULL /\ ret # args.ptr
  /\ Cardinality(Live(heap)) = 2

IsAllocZero ==
  /\ pc = "run"
  /\ op = "malloc" \/ (op = "realloc" /\ args.ptr = NULL)
  /\ args.size = 0

\* realloc(NULL, n) is malloc(n); realloc(block, 0) releases block and
\* returns NULL; free(NULL) changes nothing; free(block) releases block.
NullAndZeroCases ==
  /\ pc = "run" =>
       \A n \in Sizes : \A out \in AllocOutcomes(heap) :
         realloc(heap, NULL, n, out) = malloc(heap, n, out)
  /\ (pc = "run" /\ op = "realloc" /\ args.ptr # NULL /\ args.size = 0) =>
       ret = NULL /\ heap = Without(mem0, args.ptr) /\ args.ptr \in Live(mem0)
  /\ (pc = "run" /\ op = "free" /\ args.ptr = NULL) => heap = mem0
  /\ (pc = "run" /\ op = "free" /\ args.ptr # NULL) =>
       heap = Without(mem0, args.ptr) /\ args.ptr \in Live(mem0)

\* The block a request for 0 bytes returned: live, new, and held, so that
\* free accepts it.
ZeroBlock ==
  /\ ret # NULL
  /\ ret \in Live(heap) /\ ret \notin Live(mem0)
  /\ heap = With(mem0, ret, 1)
  /\ ret \in held

(* C9 as claimed: realloc(NULL, n) has the result and heap effect of        *)
(* malloc(n); for n = 0 both return a non-null live block distinct from     *)
(* every other live block, which can be released; realloc(block, 0)         *)
(* releases block and returns NULL; free(NULL) leaves the live blocks       *)
(* unchanged.                                                               *)
C9_ZeroNeverNull ==
  /\ NullAndZeroCases
  /\ IsAllocZero => ZeroBlock

(* C9 as amended: the same, except that for n = 0 both return such a block  *)
(* when HeapAlloc, asked for 1 byte, returns one, and NULL when it fails.   *)
C9_NullAndZero ==
  /\ NullAndZeroCases
  /\ IsAllocZero => IF args.out # NULL THEN ZeroBlock ELSE ret = NULL /\ heap = mem0

\* realloc(NULL, 0) returned a block while another block was live.
C9_Witness ==
  /\ pc = "run" /\ op = "realloc" /\ args.ptr = NULL /\ args.size = 0
  /\ ret # NULL
  /\ Cardinality(Live(heap)) = 2

-----------------------------------------------------------------------------
(* The environment: getenv and _putenv over GetEnvironmentVariableA and    *)
(* SetEnvironmentVariableA.  The environment e is a function from the      *)
(* names of the variables that exist to their values; names and values are *)
(* sequences of character codes.  A char* that may be NULL is <<>> for     *)
(* NULL and <<s>> for a pointer to the string s.                           *)

Threads == {1, 2}
sizeof_getenv_buffer == 32768

\* Address of thread t's getenv_buffer.
getenv_buffer_at(t) == 2 * t - 1

RECURSIVE strchr_loop(_, _, _)
\* while (*str) { if (*str == (char)c) return (char*)str; str++; }
\* return (c == '\0') ? (char*)str : NULL;
strchr_loop(str, p, c) ==
  IF CharAt(str, p) # 0
  THEN IF CharAt(str, p) = c THEN p ELSE strchr_loop(str, p + 1, c)
  ELSE IF c = 0 THEN p ELSE NULL

\* The position in str of the first c, NULL when there is none.
strchr(str, c) == strchr_loop(str, 1, c)

\* Fails for an empty name and when the system cannot store the variable
\* (ok is the system's answer); a NULL value deletes the variable.
SetEnvironmentVariableA(e, lpName, lpValue, ok) ==
  IF lpName = <<>> \/ ~ok THEN [env |-> e, result |-> FALSE]
  ELSE IF lpValue = <<>> THEN [env |-> Without(e, lpName), result |-> TRUE]
  ELSE [env |-> With(e, lpName, lpValue[1]), result |-> TRUE]

\* Returns 0 and leaves the buffer alone when the variable does not exist,
\* the size needed when the buffer is too small, and otherwise stores the
\* value and returns its length.
GetEnvironmentVariableA(e, lpName, lpBuffer, nSize) ==
  IF lpName \notin DOMAIN e THEN [len |-> 0, buffer |-> lpBuffer]
  ELSE IF Len(e[lpName]) + 1 > nSize THEN [len |-> Len(e[lpName]) + 1, buffer |-> lpBuffer]
  ELSE [len |-> Len(e[lpName]), buffer |-> e[lpName]]

\* A getenv whose buffer is a plain static array: one buffer for all threads.
getenv_static_buffer(e, bufs, t, name) ==
  LET r == GetEnvironmentVariableA(e, name, bufs[t], sizeof_getenv_buffer)
  IN [ret |-> IF r.len = 0 \/ r.len >= sizeof_getenv_buffer
              THEN NULL ELSE getenv_buffer_at(t),
      getenv_buffer |-> [u \in DOMAIN bufs |-> r.buffer]]

\* getenv called by thread t, whose buffer is bufs[t].
getenv(e, bufs, t, name) ==
  LET r == GetEnvironmentVariableA(e, name, bufs[t], sizeof_getenv_buffer)
  IN [ret |-> IF r.len = 0 \/ r.len >= sizeof_getenv_buffer
              THEN NULL ELSE getenv_buffer_at(t),
      getenv_buffer |-> [bufs EXCEPT ![t] = r.buffer]]

\* A _putenv that takes the value from eq, not from eq + 1.
_putenv_value_at_eq(e, h, envstring, out, ok) ==
  LET eq == strchr(envstring, 61)
  IN IF eq = NULL THEN [ret |-> -1, env |-> e, heap |-> h]
     ELSE LET namelen == eq - 1
              m == malloc(h, namelen + 1, out)
          IN IF m.ret = NULL THEN [ret |-> -1, env |-> e, heap |-> m.heap]
             ELSE LET name == SubSeq(envstring, 1, namelen)
                      value == SubSeq(envstring, eq, Len(envstring))
                      s == SetEnvironmentVariableA(e, name,
                             IF value # <<>> THEN <<value>> ELSE <<>>, ok)
                  IN [ret |-> IF s.result THEN 0 ELSE -1,
                      env |-> s.env,
                      heap |-> free(m.heap, m.ret)]

\* _putenv on environment e and heap h; out is what HeapAlloc answers, ok
\* what SetEnvironmentVariableA's system call answers.
_putenv(e, h, envstring, out, ok) ==
  LET eq == strchr(envstring, 61)
  IN IF eq = NULL THEN [ret |-> -1, env |-> e, heap |-> h]
     ELSE LET namelen == eq - 1
              m == malloc(h, namelen + 1, out)
          IN IF m.ret = NULL THEN [ret |-> -1, env |-> e, heap |-> m.heap]
             ELSE LET name == SubSeq(envstring, 1, namelen)
                      value == SubSeq(envstring, eq + 1, Len(envstring))
                      s == SetEnvironmentVariableA(e, name,
                             IF value # <<>> THEN <<value>> ELSE <<>>, ok)
                  IN [ret |-> IF s.result THEN 0 ELSE -1,
                      env |-> s.env,
                      heap |-> free(m.heap, m.ret)]

\* "", "X", "Y"
EnvNames == {<<>>, <<88>>, <<89>>}
\* "", "1", "=", "1=1"
EnvValues == {<<>>, <<49>>, <<61>>, <<49, 61, 49>>}

InitEnv ==
  /\ pc = "run"
  /\ PureIdle
  /\ SearchIdle
  /\ heap = NoBlocks
  /\ held = {}
  /\ env = [n \in {} |-> <<>>]
  /\ getenv_buffer = [t \in Threads |-> <<>>]
  /\ wgetenv_buffer = [t \in Threads |-> <<>>]
  /\ lastSet = [n \in EnvNames |-> <<>>]

\* _putenv("NAME=value"); lastSet notes what the caller set when _putenv
\* reports success.
PutenvCall(name, value, out, ok) ==
  LET envstring == name \o <<61>> \o value
      r == _putenv(env, heap, envstring, out, ok)
  IN /\ pc = "run"
     /\ op' = "_putenv"
     /\ args' = [envstring |-> envstring]
     /\ ret' = r.ret
     /\ mem0' = env
     /\ env' = r.env
     /\ heap' = r.heap
     /\ lastSet' = IF r.ret = 0 THEN [lastSet EXCEPT ![name] = value] ELSE lastSet
     /\ UNCHANGED <<pc, mem, searchVars, held, getenv_buffer, wgetenv_buffer>>

Putenv ==
  \E name \in EnvNames, value \in EnvValues, out \in AllocOutcomes(heap), ok \in BOOLEAN :
    PutenvCall(name, value, out, ok)

\* _putenv of a token without '='.
PutenvNoEquals ==
  \E envstring \in EnvNames, out \in AllocOutcomes(heap), ok \in BOOLEAN :
    LET r == _putenv(env, heap, envstring, out, ok)
    IN /\ pc = "run"
       /\ op' = "_putenv"
       /\ args' = [envstring |-> envstring]
       /\ ret' = r.ret
       /\ mem0' = env
       /\ env' = r.env
       /\ heap' = r.heap
       /\ UNCHANGED <<pc, mem, searchVars, held, getenv_buffer, wgetenv_buffer, lastSet>>

\* getenv(name) called by thread t.
GetenvCall(t, name) ==
  LET r == getenv(env, getenv_buffer, t, name)
  IN /\ pc = "run"
     /\ op' = "getenv"
     /\ args' = [thread |-> t, name |-> name]
     /\ ret' = r.ret
     /\ mem0' = env
     /\ getenv_buffer' = r.getenv_buffer
     /\ UNCHANGED <<pc, mem, searchVars, heapVars, env, wgetenv_buffer, lastSet>>

Getenv == \E t \in Threads, name \in EnvNames : GetenvCall(t, name)

NextEnv == Putenv \/ PutenvNoEquals \/ Getenv

SpecEnv == InitEnv /\ [][NextEnv]_vars

(* C10: after any sequence of _putenv calls, getenv(X) returns the value of *)
(* the most recent successful _putenv("X=value") with a non-empty value,    *)
(* and NULL if X was never set or was last set by "X="; a _putenv token     *)
(* without '=' returns a negative status and leaves the environment         *)
(* unchanged.                                                               *)
C10_SetGet ==
  /\ (pc = "run" /\ op = "getenv") =>
       IF lastSet[args.name] = <<>> THEN ret = NULL
       ELSE /\ ret = getenv_buffer_at(args.thread)
            /\ getenv_buffer[args.thread] = lastSet[args.name]
  /\ (pc = "run" /\ op = "_putenv"
        /\ \A i \in 1..Len(args.envstring) : args.envstring[i] # 61) =>
       ret < 0 /\ env = mem0

\* getenv("X") returns "1" in one thread's buffer while the other thread's
\* buffer still holds "=", a value X had before; Y is not set.
C10_Witness ==
  /\ pc = "run" /\ op = "getenv" /\ args.name = <<88>>
  /\ ret # NULL
  /\ getenv_buffer[args.thread] = <<49>>
  /\ \E t \in Threads : getenv_buffer[t] = <<61>>
  /\ lastSet[<<89>>] = <<>>

-----------------------------------------------------------------------------
(* The thread-local buffers of getenv and _wgetenv.  A wide string is the  *)
(* sequence of its wchar_t codes; the names and values used are ASCII, so  *)
(* the narrow and the wide call name and read the same variables.          *)

countof_wgetenv_buffer == 32768

\* Address of thread t's wgetenv_buffer.
wgetenv_buffer_at(t) == 2 * t

\* The wide-character read of the process environment.
GetEnvironmentVariableW(e, lpName, lpBuffer, nSize) ==
  IF lpName \notin DOMAIN e THEN [len |-> 0, buffer |-> lpBuffer]
  ELSE IF Len(e[lpName]) + 1 > nSize THEN [len |-> Len(e[lpName]) + 1, buffer |-> lpBuffer]
  ELSE [len |-> Len(e[lpName]), buffer |-> e[lpName]]

\* _wgetenv called by thread t, whose buffer is bufs[t].
_wgetenv(e, bufs, t, name) ==
  LET r == GetEnvironmentVariableW(e, name, bufs[t], countof_wgetenv_buffer)
  IN [ret |-> IF r.len = 0 \/ r.len >= countof_wgetenv_buffer
              THEN NULL ELSE wgetenv_buffer_at(t),
      wgetenv_buffer |-> [bufs EXCEPT ![t] = r.buffer]]

\* _wgetenv(name) called by thread t.
WgetenvCall(t, name) ==
  LET r == _wgetenv(env, wgetenv_buffer, t, name)
  IN /\ pc = "run"
     /\ op' = "_wgetenv"
     /\ args' = [thread |-> t, name |-> name]
     /\ ret' = r.ret
     /\ mem0' = env
     /\ wgetenv_buffer' = r.wgetenv_buffer
     /\ UNCHANGED <<pc, mem, searchVars, heapVars, env, getenv_buffer, lastSet>>

\* The variable the threads set and read: "X".
ThreadName == <<88>>

ThreadPutenv ==
  \E value \in EnvValues, out \in AllocOutcomes(heap), ok \in BOOLEAN :
    PutenvCall(ThreadName, value, out, ok)
ThreadGetenv == \E t \in Threads : GetenvCall(t, ThreadName)
ThreadWgetenv == \E t \in Threads : WgetenvCall(t, ThreadName)

\* The threads call getenv, _wgetenv and _putenv in any order; a call runs
\* on its own thread's buffers from entry to return.
NextThreads == ThreadPutenv \/ ThreadGetenv \/ ThreadWgetenv

SpecThreads == InitEnv /\ [][NextThreads]_vars

\* The step is a call of function f by thread t.
IsCallBy(f, t) == op' = f /\ args'.thread = t

\* What one step does to the buffers.
BufferStep ==
  /\ \A t \in Threads :
       /\ ~IsCallBy("getenv", t) => getenv_buffer'[t] = getenv_buffer[t]
       /\ ~IsCallBy("_wgetenv", t) => wgetenv_buffer'[t] = wgetenv_buffer[t]
       /\ (IsCallBy("getenv", t) /\ ret' # NULL) =>
            /\ ret' = getenv_buffer_at(t)
            /\ args'.name \in DOMAIN env
            /\ getenv_buffer'[t] = env[args'.name]
       /\ (IsCallBy("_wgetenv", t) /\ ret' # NULL) =>
            /\ ret' = wgetenv_buffer_at(t)
            /\ args'.name \in DOMAIN env
            /\ wgetenv_buffer'[t] = env[args'.name]
  /\ \A t, u \in Threads :
       /\ getenv_buffer_at(t) # wgetenv_buffer_at(u)
       /\ t # u => getenv_buffer_at(t) # getenv_buffer_at(u)
       /\ t # u => wgetenv_buffer_at(t) # wgetenv_buffer_at(u)

(* C11: under any interleaving of getenv, _wgetenv and _putenv calls by     *)
(* several threads, the contents a thread's successful getenv (or _wgetenv) *)
(* returned stay as read until that thread calls the same function again:   *)
(* no call by another thread and no call of the other function by the same  *)
(* thread changes them, and a later successful call of the same function by *)
(* the thread replaces them by the value it reads.                          *)
C11_ThreadLocalBuffers == [][BufferStep]_vars

\* Thread 1 still has "1" in its narrow buffer after thread 2 read "=" into
\* its own and thread 1 read "1=1" with _wgetenv, and X has been deleted.
C11_Witness ==
  /\ pc = "run"
  /\ getenv_buffer[1] = <<49>>
  /\ getenv_buffer[2] = <<61>>
  /\ wgetenv_buffer[1] = <<49, 61, 49>>
  /\ wgetenv_buffer[2] = <<>>
  /\ ThreadName \notin DOMAIN env

-----------------------------------------------------------------------------
(* Single-element conversion: wctomb and mbtowc over WideCharToMultiByte   *)
(* and MultiByteToWideChar with CP_UTF8.  Whether the system accepts an    *)
(* input is the system's answer, an input `fails` of the call.             *)

\* Length of the UTF-8 encoding of one wchar_t.
Utf8Len(wc) == IF wc < 128 THEN 1 ELSE IF wc < 2048 THEN 2 ELSE 3

\* Number of bytes written to a buffer of cbMultiByte bytes for the one
\* wchar_t wc; 0 when the function fails.
WideCharToMultiByte(wc, cbMultiByte, fails) ==
  IF fails \/ Utf8Len(wc) > cbMultiByte THEN 0 ELSE Utf8Len(wc)

\* Number of wchar_t written to a buffer of cchWideChar elements for the
\* cbMultiByte bytes at s; 0 when the function fails, which it does for
\* cbMultiByte = 0.
MultiByteToWideChar(cbMultiByte, cchWideChar, fails) ==
  IF fails \/ cbMultiByte = 0 \/ cchWideChar < 1 THEN 0 ELSE 1

\* if (s == NULL) return 0;
\* return WideCharToMultiByte(CP_UTF8, 0, &wc, 1, s, 6, NULL, NULL);
wctomb(s, wc, fails) ==
  IF s = NULL THEN 0 ELSE WideCharToMultiByte(wc, 6, fails)

\* if (s == NULL) return 0;
\* int result = MultiByteToWideChar(CP_UTF8, 0, s, (int)n, pwc, 1);
\* return result > 0 ? result : -1;
mbtowc(s, n, fails) ==
  IF s = NULL THEN 0
  ELSE LET result == MultiByteToWideChar(n, 1, fails)
       IN IF result > 0 THEN result ELSE -1

\* NUL, 'A', the ends of the 1-, 2- and 3-byte ranges, a lone surrogate.
WideChars == {0, 65, 127, 128, 233, 2047, 2048, 8364, 55296, 65535}
\* NULL or the address of the caller's buffer.
Pointers == {NULL, 1}

InitConvert ==
  /\ pc = "call"
  /\ op = "none"
  /\ args \in [s : Pointers, wc : WideChars, n : 0..MaxN, fails : BOOLEAN]
  /\ ret = NULL
  /\ mem0 = <<>>
  /\ mem = <<>>
  /\ SearchIdle /\ HeapIdle /\ EnvIdle

ConvertCall(name, r) ==
  /\ pc = "call"
  /\ pc' = "done"
  /\ op' = name
  /\ ret' = r
  /\ UNCHANGED <<args, mem0, mem, searchVars, heapVars, envVars>>

Wctomb == ConvertCall("wctomb", wctomb(args.s, args.wc, args.fails))
Mbtowc == ConvertCall("mbtowc", mbtowc(args.s, args.n, args.fails))

NextConvert == Wctomb \/ Mbtowc

SpecConvert == InitConvert /\ [][NextConvert]_vars

\* The counts a successful call can return: the bytes of one UTF-8
\* character for wctomb, the bytes consumed for mbtowc.
ProducedCounts == 1..4

\* The call was given a null input, or the system's conversion failed.
ConvertFailed ==
  \/ args.s = NULL
  \/ op = "wctomb" /\ WideCharToMultiByte(args.wc, 6, args.fails) = 0
  \/ op = "mbtowc" /\ MultiByteToWideChar(args.n, 1, args.fails) = 0

(* C12: whenever the input of wctomb or mbtowc is null, or the system's     *)
(* conversion function reports failure, the function returns a failure      *)
(* sentinel that is neither zero nor a count a successful call produces.    *)
C12_FailureSentinel ==
  (pc = "done" /\ op \in {"wctomb", "mbtowc"} /\ ConvertFailed) =>
    ret # 0 /\ ret \notin ProducedCounts

-----------------------------------------------------------------------------
(* Aligned allocation: _aligned_malloc and _aligned_free over malloc and   *)
(* free.  Here the heap's addresses are byte addresses and size_t          *)
(* arithmetic is done in its width; the width is scaled down from 64 bits  *)
(* to SizeBits so that the sizes at which size + alignment + pointer size   *)
(* wraps can be enumerated.  mem holds the pointer-sized words the code    *)
(* stores, as a function from the address of a word to its value.          *)

sizeof_void_ptr == 8
SizeBits == 7
SizeLimit == 2 ^ SizeBits

\* a + b in a size_t
AddSize(a, b) == (a + b) % SizeLimit
\* x & ~(alignment - 1), for a power-of-two alignment
AlignDown(x, alignment) == x - (x % alignment)

Alignments == {1, 2, 4, 8, 16}
MaxAlign == CHOOSE a \in Alignments : \A b \in Alignments : b <= a

\* An _aligned_malloc that leaves no room for the back-pointer.
_aligned_malloc_no_room(h, m, size, alignment, out) ==
  LET r == malloc(h, AddSize(AddSize(size, alignment), sizeof_void_ptr), out)
      raw == r.ret
  IN IF raw = NULL THEN [heap |-> r.heap, mem |-> m, ret |-> NULL]
     ELSE LET aligned == AlignDown(AddSize(raw, alignment - 1), alignment)
          IN [heap |-> r.heap,
              mem |-> With(m, aligned - sizeof_void_ptr, raw),
              ret |-> aligned]

\* On heap h and memory m; out is what HeapAlloc answers.
_aligned_malloc(h, m, size, alignment, out) ==
  LET r == malloc(h, AddSize(AddSize(size, alignment), sizeof_void_ptr), out)
      raw == r.ret
  IN IF raw = NULL THEN [heap |-> r.heap, mem |-> m, ret |-> NULL]
     ELSE LET aligned == AlignDown(AddSize(AddSize(raw, sizeof_void_ptr), alignment - 1),
                                   alignment)
          IN [heap |-> r.heap,
              mem |-> With(m, aligned - sizeof_void_ptr, raw),
              ret |-> aligned]

\* if (ptr != NULL) free(the word before ptr);
_aligned_free(h, m, ptr) ==
  IF ptr # NULL THEN free(h, m[ptr - sizeof_void_ptr]) ELSE h

\* The heap serves a request from one of two regions of the address space,
\* at any of MaxAlign consecutive addresses of a region that holds no live
\* block, so that the raw address takes every residue of every alignment.
RegionSpan == SizeLimit \div 2
Region(a) == a \div RegionSpan
RawAddrs == {k * RegionSpan + MaxAlign + o : k \in 0..1, o \in 0..(MaxAlign - 1)}
AlignedOutcomes(h) ==
  {NULL} \cup {a \in RawAddrs : \A b \in Live(h) : Region(b) # Region(a)}

\* Small sizes, and the sizes at which the sum passed to malloc wraps: to
\* alignment - 1 and to 0 (for the largest alignment).
AlignedSizes ==
  (0..MaxSize) \cup {SizeLimit - sizeof_void_ptr - 1, SizeLimit - sizeof_void_ptr - MaxAlign}

\* The caller passes one size and alignment to all its calls and holds the
\* payloads returned; held pairs each payload with the raw block HeapAlloc
\* returned for it.
InitAligned ==
  /\ pc = "run"
  /\ op = "none"
  /\ args \in [size : AlignedSizes, alignment : Alignments, out : {NULL}, ptr : {NULL}]
  /\ ret = NULL
  /\ mem0 = NoBlocks
  /\ mem = NoBlocks
  /\ heap = NoBlocks
  /\ held = {}
  /\ SearchIdle /\ EnvIdle

AlignedMalloc ==
  \E out \in AlignedOutcomes(heap) :
    LET r == _aligned_malloc(heap, mem, args.size, args.alignment, out)
    IN /\ pc = "run"
       /\ op' = "_aligned_malloc"
       /\ args' = [args EXCEPT !.out = out, !.ptr = NULL]
       /\ ret' = r.ret
       /\ mem0' = heap
       /\ heap' = r.heap
       /\ mem' = r.mem
       /\ held' = IF r.ret # NULL THEN held \cup {<<r.ret, out>>} ELSE held
       /\ UNCHANGED <<pc, searchVars, envVars>>

AlignedFree ==
  \E b \in held \cup {<<NULL, NULL>>} :
    /\ pc = "run"
    /\ op' = "_aligned_free"
    /\ args' = [args EXCEPT !.out = b[2], !.ptr = b[1]]
    /\ ret' = NULL
    /\ mem0' = heap
    /\ heap' = _aligned_free(heap, mem, b[1])
    /\ held' = held \ {b}
    \* the word before a released payload is not read again
    /\ mem' = Without(mem, b[1] - sizeof_void_ptr)
    /\ UNCHANGED <<pc, searchVars, envVars>>

NextAligned == AlignedMalloc \/ AlignedFree

SpecAligned == InitAligned /\ [][NextAligned]_vars

\* The header invariant of the payload returned for the raw block.
AlignedBlock(payload, raw) ==
  LET total == args.size + args.alignment + sizeof_void_ptr
  IN /\ payload % args.alignment = 0
     /\ payload >= raw + sizeof_void_ptr
     /\ payload - args.alignment < raw + sizeof_void_ptr
     /\ raw \in Live(heap) /\ heap[raw] = total
     /\ raw <= payload - sizeof_void_ptr
     /\ payload + args.size <= raw + total
     /\ (payload - sizeof_void_ptr) \in DOMAIN mem
     /\ mem[payload - sizeof_void_ptr] = raw

\* Every payload held satisfies the header invariant; _aligned_malloc hands
\* the caller the payload of the block HeapAlloc returned; _aligned_free of
\* a payload frees its raw block, which was live, and nothing else.
AlignedHeader ==
  /\ \A b \in held : AlignedBlock(b[1], b[2])
  /\ (op = "_aligned_malloc" /\ ret # NULL) => <<ret, args.out>> \in held
  /\ (op = "_aligned_free" /\ args.ptr # NULL) =>
       /\ args.out \in Live(mem0)
       /\ args.ptr # args.out
       /\ heap = Without(mem0, args.out)
  /\ (op = "_aligned_free" /\ args.ptr = NULL) => heap = mem0
  /\ Live(heap) = {b[2] : b \in held}

\* size + alignment + pointer size fits a size_t.
SumFits == args.size + args.alignment + sizeof_void_ptr < SizeLimit

(* C13 as claimed: for every power-of-two alignment, every size and every   *)
(* raw address, the payload of _aligned_malloc is the least multiple of     *)
(* alignment >= raw + pointer size, [payload - pointer size, payload +      *)
(* size) lies inside the raw block of size + alignment + pointer size       *)
(* bytes and the word before the payload holds raw; so, after any sequence  *)
(* of calls, _aligned_free(payload) frees exactly that raw block.           *)
C13_AlignedHeaderAnySize == pc = "run" => AlignedHeader

(* C13 as amended: the same for every size for which size + alignment +     *)
(* pointer size does not exceed the largest size_t.                         *)
C13_AlignedHeader == (pc = "run" /\ SumFits) => AlignedHeader

\* A block was allocated at an odd raw address, with an alignment above the
\* pointer size, while the other region holds a live block.
C13_Witness ==
  /\ pc = "run" /\ SumFits
  /\ op = "_aligned_malloc" /\ ret # NULL
  /\ args.alignment = MaxAlign /\ args.size = MaxSize
  /\ args.out % 2 = 1
  /\ Cardinality(held) = 2
  /\ ret - args.out > sizeof_void_ptr

-----------------------------------------------------------------------------
(* The blocks the layer allocates for itself: qsort's scratch element,     *)
(* _putenv's copy of the name, the duplicate strdup and wcsdup return, and *)
(* the buffer _getcwd and _wgetcwd allocate when called with NULL.  The    *)
(* heap is the heap of malloc and free above; held is what the caller has  *)
(* been handed and has not freed.                                          *)

sizeof_wchar_t == 2

\* What qsort does to the heap: temp = malloc(size); if (!temp) return;
\* ...; free(temp);
qsort_scratch(h, size, out) ==
  LET temp == malloc(h, size, out)
  IN IF temp.ret = NULL THEN [heap |-> temp.heap, ret |-> NULL]
     ELSE [heap |-> free(temp.heap, temp.ret), ret |-> NULL]

\* len = strlen(str) + 1; dup = malloc(len); return dup;
strdup(h, str, out) == malloc(h, Len(str) + 1, out)

\* len = (wcslen(str) + 1) * sizeof(wchar_t); dup = malloc(len); return dup;
wcsdup(h, str, out) == malloc(h, (Len(str) + 1) * sizeof_wchar_t, out)

\* The body _getcwd and _wgetcwd share, for a buffer of `bytes` bytes; len
\* is what GetCurrentDirectory answers: 0 for failure, the size needed
\* when maxlen is too small, else the length stored.
getcwd_body(h, buffer, maxlen, bytes, out, len) ==
  LET b == IF buffer = NULL THEN malloc(h, bytes, out) ELSE [heap |-> h, ret |-> buffer]
  IN IF b.ret = NULL THEN [heap |-> b.heap, ret |-> NULL]
     ELSE IF len = 0 \/ len >= maxlen THEN [heap |-> b.heap, ret |-> NULL]
     ELSE [heap |-> b.heap, ret |-> b.ret]

_getcwd(h, buffer, maxlen, out, len) == getcwd_body(h, buffer, maxlen, maxlen, out, len)

_wgetcwd(h, buffer, maxlen, out, len) ==
  getcwd_body(h, buffer, maxlen, maxlen * sizeof_wchar_t, out, len)

\* What GetCurrentDirectory can answer for a buffer of maxlen elements.
CwdOutcomes(maxlen) == {0, 1, maxlen}

QsortScratch ==
  \E size \in 1..MaxSize, out \in AllocOutcomes(heap) :
    HeapCall("qsort", [size |-> size, out |-> out], qsort_scratch(heap, size, out), held)

\* _putenv("X=1")
NamePutenv ==
  \E out \in AllocOutcomes(heap), ok \in BOOLEAN : PutenvCall(ThreadName, <<49>>, out, ok)

Strdup ==
  \E str \in Strs, out \in AllocOutcomes(heap) :
    LET r == strdup(heap, str, out)
    IN HeapCall("strdup", [str |-> str, out |-> out], r, held \cup ({r.ret} \ {NULL}))

Wcsdup ==
  \E str \in Strs, out \in AllocOutcomes(heap) :
    LET r == wcsdup(heap, str, out)
    IN HeapCall("wcsdup", [str |-> str, out |-> out], r, held \cup ({r.ret} \ {NULL}))

\* The caller passes NULL or a block it holds, and holds what is returned.
Getcwd ==
  \E buffer \in held \cup {NULL}, maxlen \in 1..MaxSize, out \in AllocOutcomes(heap) :
    \E len \in CwdOutcomes(maxlen) :
      LET r == _getcwd(heap, buffer, maxlen, out, len)
      IN HeapCall("_getcwd", [buffer |-> buffer, maxlen |-> maxlen, out |-> out, len |-> len],
                  r, held \cup ({r.ret} \ {NULL}))

Wgetcwd ==
  \E buffer \in held \cup {NULL}, maxlen \in 1..MaxSize, out \in AllocOutcomes(heap) :
    \E len \in CwdOutcomes(maxlen) :
      LET r == _wgetcwd(heap, buffer, maxlen, out, len)
      IN HeapCall("_wgetcwd", [buffer |-> buffer, maxlen |-> maxlen, out |-> out, len |-> len],
                  r, held \cup ({r.ret} \ {NULL}))

NextOwn == QsortScratch \/ NamePutenv \/ Strdup \/ Wcsdup \/ Getcwd \/ Wgetcwd \/ Free

SpecOwn == InitEnv /\ [][NextOwn]_vars

(* C14: every block an operation allocates for its own use is released      *)
(* before the operation returns or is returned to the caller, on every      *)
(* return path; so after any sequence of qsort, _putenv, strdup, wcsdup,    *)
(* _getcwd and _wgetcwd calls (a failing _getcwd(NULL, n) included) every   *)
(* live block of the heap is held by the caller.                            *)
C14_NoInternalLeak == pc = "run" => Live(heap) \subseteq held

====
